---- MODULE Spec2Model ----
(***************************************************************************)
(* Request dispatch core of the afterburner framework                      *)
(* (src/afterburner/api.py, class API): route registration and matching,   *)
(* handler resolution, the middleware pipeline, the static-asset branch    *)
(* of the WSGI entrypoint and exception-to-response translation.           *)
(*                                                                         *)
(* Strings that the code inspects character by character (route patterns   *)
(* and request paths) are sequences of one-character strings; a            *)
(* placeholder of a pattern is the single token "{name}".                  *)
(***************************************************************************)
EXTENDS Integers, Sequences, FiniteSets, TLC

VARIABLES
    routes,             \* self.routes, in insertion order
    exception_handler,  \* self.exception_handler
    middleware,         \* self.middleware: the classes the pipeline is built from
    registered,         \* history: the arguments of the add_middleware calls, in call order
    installed,          \* history: the arguments of the add_exception_handler calls, in call order
    heap,               \* the Response objects created by dispatches running concurrently
    threads,            \* the position of each thread inside API.handle_request
    op,                 \* history: the last call made on the API object
    events,             \* history: the calls the last operation made, in order
    result              \* history: how the last operation ended

vars == <<routes, exception_handler, middleware, registered, installed, heap, threads,
          op, events, result>>

(***************************************************************************)
(* Bounds of the model.                                                    *)
(***************************************************************************)
MaxRoutes == 2

(***************************************************************************)
(* Inputs: patterns, paths, methods, handlers.                             *)
(***************************************************************************)
Field == "{name}"

\* '/static', the prefix tested by API.__call__ and given to WhiteNoise.
StaticPrefix == <<"/", "s", "t", "a", "t", "i", "c">>

\* Route patterns the application registers.
Patterns ==
    { <<"/", "a">>,
      <<"/", Field>>,
      <<"/", "a", "/", Field>> }

\* Values substituted for a placeholder: path segments without '/'.
Values == { <<>>, <<"a">>, <<"b">> }

\* The path obtained by substituting a value for the placeholder of a pattern.
RECURSIVE substitute(_, _)
substitute(pattern, v) ==
    IF pattern = <<>> THEN <<>>
    ELSE IF Head(pattern) = Field THEN v \o substitute(Tail(pattern), v)
    ELSE <<Head(pattern)>> \o substitute(Tail(pattern), v)

\* Request paths: every pattern with every value substituted, two paths below
\* the static prefix and one path differing from a literal pattern by case.
Paths ==
    { substitute(p, v) : p \in Patterns, v \in Values }
        \cup { StaticPrefix \o <<"/", "a">>, StaticPrefix \o <<"/", "b">> }
        \cup { <<"/", "A">> }

\* Files WhiteNoise found under static_dir, keyed by URL.
StaticFiles == { StaticPrefix \o <<"/", "a">> }

Methods == {"GET", "POST"}

\* The request methods whose lower-case names add_route's default lists.
StandardMethods ==
    {"GET", "HEAD", "POST", "PUT", "DELETE", "CONNECT", "OPTIONS", "TRACE", "PATCH"}

Requests == [path : Paths, method : Methods]

\* str.lower() on the request method.
lower(m) ==
    CASE m = "GET" -> "get"
      [] m = "POST" -> "post"
      [] m = "HEAD" -> "head"
      [] m = "PUT" -> "put"
      [] m = "DELETE" -> "delete"
      [] m = "CONNECT" -> "connect"
      [] m = "OPTIONS" -> "options"
      [] m = "TRACE" -> "trace"
      [] m = "PATCH" -> "patch"
      [] OTHER -> m

\* The default list with one of the nine names left out.
DefaultAllowedMethods_without_patch ==
    {"get", "head", "post", "put", "delete", "connect", "options", "trace"}

\* The default of add_route's allowed_methods.
DefaultAllowedMethods ==
    {"get", "head", "post", "put", "delete", "connect", "options", "trace", "patch"}

\* What the application registers: a handler and the allowed_methods it is
\* registered with (the default when the argument is omitted).
Registrations ==
    { [handler |-> "home", allowed_methods |-> DefaultAllowedMethods],
      [handler |-> "home", allowed_methods |-> {"post"}],
      [handler |-> "index", allowed_methods |-> {"post"}],
      [handler |-> "BooksResource", allowed_methods |-> {"post"}] }

\* Application handlers: the functions "home" and "index" and the class
\* "BooksResource", which defines the member get alone.
\* inspect.isclass(handler)
isclass(h) == h = "BooksResource"

\* The attributes getattr(handler(), name, None) finds on an instance.
Members(h) == IF h = "BooksResource" THEN {"get"} ELSE {}

ExceptionHandlers == {"on_exception", "on_exception_raises"}

MiddlewareClasses == {"M1", "M2"}

NoHandler == "None"

\* The threads of the WSGI server that call the application concurrently.
Threads == {"t1", "t2"}

\* A thread that is not inside handle_request.
Idle == [pc |-> "idle"]

(***************************************************************************)
(* Response and exceptions.                                                *)
(***************************************************************************)
\* Response(): status 200, empty body.
Response == [status_code |-> 200, text |-> ""]

MethodNotAllowed(method) ==
    [type |-> "AttributeError", args |-> <<"Method not allowed", method>>]

DuplicateRoute(path) ==
    [type |-> "AssertionError", args |-> <<"Duplicate route", path>>]

HandlerError == [type |-> "AttributeError", args |-> <<>>]

DoubleFault == [type |-> "RuntimeError", args |-> <<>>]

(***************************************************************************)
(* parse(format, string) of the parse library as find_handler uses it:     *)
(* the format is compiled to an anchored regular expression in which a     *)
(* literal character matches itself ignoring case and a field matches      *)
(* one or more characters of any kind, as few as possible.                 *)
(***************************************************************************)
casefold(c) == IF c = "A" THEN "a" ELSE c

NoMatch == [ok |-> FALSE, named |-> {}]

\* A match whose fields stop at '/'.
RECURSIVE match_within_segment(_, _)
match_within_segment(format, string) ==
    IF format = <<>>
    THEN IF string = <<>> THEN [ok |-> TRUE, named |-> {}] ELSE NoMatch
    ELSE IF Head(format) = Field
    THEN LET n == Len(string)
             ks == { k \in 1..n :
                        /\ \A i \in 1..k : string[i] # "/"
                        /\ match_within_segment(Tail(format),
                                                SubSeq(string, k + 1, n)).ok }
         IN  IF ks = {}
             THEN NoMatch
             ELSE LET k == CHOOSE j \in ks : \A i \in ks : j <= i
                      rest == match_within_segment(Tail(format),
                                                   SubSeq(string, k + 1, n))
                  IN  [ok |-> TRUE,
                       named |-> {<<"name", SubSeq(string, 1, k)>>} \cup rest.named]
    ELSE IF string # <<>> /\ casefold(Head(format)) = casefold(Head(string))
    THEN match_within_segment(Tail(format), Tail(string))
    ELSE NoMatch

\* The match of the compiled expression: whether it matches and, if so, the
\* named fields.
RECURSIVE match(_, _)
match(format, string) ==
    IF format = <<>>
    THEN IF string = <<>> THEN [ok |-> TRUE, named |-> {}] ELSE NoMatch
    ELSE IF Head(format) = Field
    THEN LET n == Len(string)
             ks == { k \in 1..n : match(Tail(format), SubSeq(string, k + 1, n)).ok }
         IN  IF ks = {}
             THEN NoMatch
             ELSE LET k == CHOOSE j \in ks : \A i \in ks : j <= i
                      rest == match(Tail(format), SubSeq(string, k + 1, n))
                  IN  [ok |-> TRUE,
                       named |-> {<<"name", SubSeq(string, 1, k)>>} \cup rest.named]
    ELSE IF string # <<>> /\ casefold(Head(format)) = casefold(Head(string))
    THEN match(Tail(format), Tail(string))
    ELSE NoMatch

\* match, computed once for every pattern and path of the model.
ParseResults == [format \in Patterns, string \in Paths |-> match(format, string)]

parse(format, string) == ParseResults[format, string]

\* str.startswith
startswith(s, prefix) ==
    Len(s) >= Len(prefix) /\ SubSeq(s, 1, Len(prefix)) = prefix

(***************************************************************************)
(* Registration.                                                           *)
(***************************************************************************)
RoutePaths(rts) == { rts[i].path : i \in 1..Len(rts) }

\* add_route without its assertion: the assignment replaces the entry.
add_route_no_assert(rts, path, handler, allowed_methods) ==
    IF path \in RoutePaths(rts)
    THEN [routes |-> [i \in 1..Len(rts) |->
                        IF rts[i].path = path
                        THEN [path |-> path, handler |-> handler,
                              allowed_methods |-> allowed_methods]
                        ELSE rts[i]],
          raised |-> FALSE]
    ELSE [routes |-> Append(rts, [path |-> path, handler |-> handler,
                                  allowed_methods |-> allowed_methods]),
          raised |-> FALSE]

\* API.add_route: the route table after the call and what the call raised.
add_route(rts, path, handler, allowed_methods) ==
    IF path \in RoutePaths(rts)
    THEN [routes |-> rts, raised |-> TRUE, exc |-> DuplicateRoute(path)]
    ELSE [routes |-> Append(rts, [path |-> path, handler |-> handler,
                                  allowed_methods |-> allowed_methods]),
          raised |-> FALSE]

\* Middleware.add that puts the new class outermost.
Middleware_add_outermost(mw, middleware_cls) == <<middleware_cls>> \o mw

\* Middleware.add: the classes the pipeline is built from, outermost first; the
\* class added last wraps innermost.
Middleware_add(mw, middleware_cls) == Append(mw, middleware_cls)

\* API.add_middleware
add_middleware(mw, middleware_cls) == Middleware_add(mw, middleware_cls)

\* A slot that keeps the handler it already holds.
add_exception_handler_keeps_first(current, exception_handler_) ==
    IF current = NoHandler THEN exception_handler_ ELSE current

\* API.add_exception_handler: self.exception_handler = exception_handler,
\* whatever the slot held.
add_exception_handler(current, exception_handler_) == exception_handler_

(***************************************************************************)
(* Application code handed to the framework: what each handler does to the *)
(* response it is given, and whether it raises.                            *)
(***************************************************************************)
\* The body of a route handler (for a class, of the member looked up): "home"
\* and BooksResource.get write the body; "index" writes to the response and
\* then raises.
HandlerBody(handler, member, response) ==
    CASE handler = "home" ->
            [response |-> [response EXCEPT !.text = "Hello"], raised |-> FALSE]
      [] handler = "index" ->
            [response |-> [response EXCEPT !.status_code = 201, !.text = "partial"],
             raised |-> TRUE, exc |-> HandlerError]
      [] OTHER ->
            [response |-> [response EXCEPT !.text = "suuuup"], raised |-> FALSE]

\* The body of an exception handler: "on_exception" writes the body; the other
\* one raises (the double fault).
ExceptionHandlerBody(h, response) ==
    IF h = "on_exception"
    THEN [response |-> [response EXCEPT !.text = "AttributeErrorHappened"],
          raised |-> FALSE]
    ELSE [response |-> response, raised |-> TRUE, exc |-> DoubleFault]

(***************************************************************************)
(* The dispatcher: API.find_handler, API.default_response and              *)
(* API.handle_request.                                                     *)
(***************************************************************************)
\* find_handler that keeps iterating and returns the last match.
find_handler_last_match(rts, request_path) ==
    LET hits == { i \in 1..Len(rts) : parse(rts[i].path, request_path).ok }
    IN  IF hits = {}
        THEN [found |-> FALSE]
        ELSE LET i == CHOOSE j \in hits : \A k \in hits : j >= k
             IN  [found |-> TRUE,
                  handler_data |-> [handler |-> rts[i].handler,
                                    allowed_methods |-> rts[i].allowed_methods],
                  kwargs |-> parse(rts[i].path, request_path).named]

\* API.find_handler: the first route, in insertion order, whose pattern parses
\* the request path.
find_handler(rts, request_path) ==
    LET hits == { i \in 1..Len(rts) : parse(rts[i].path, request_path).ok }
    IN  IF hits = {}
        THEN [found |-> FALSE]
        ELSE LET i == CHOOSE j \in hits : \A k \in hits : j <= k
             IN  [found |-> TRUE,
                  handler_data |-> [handler |-> rts[i].handler,
                                    allowed_methods |-> rts[i].allowed_methods],
                  kwargs |-> parse(rts[i].path, request_path).named]

\* default_response that sets the body and leaves the status.
default_response_keeps_status(response) ==
    [response EXCEPT !.text = "Not found"]

\* API.default_response
default_response(response) ==
    [response EXCEPT !.status_code = 404, !.text = "Not found"]

\* Handler resolution without the allowed_methods test of a function handler.
resolve_ignores_allowed_methods(handler_data, request) ==
    LET handler == handler_data.handler
        name == lower(request.method)
    IN  IF isclass(handler)
        THEN IF name \in Members(handler)
             THEN [raised |-> FALSE, handler |-> handler, member |-> name]
             ELSE [raised |-> TRUE, exc |-> MethodNotAllowed(request.method)]
        ELSE [raised |-> FALSE, handler |-> handler, member |-> "__call__"]

\* Handler resolution that tests allowed_methods for classes as well.
resolve_tests_allowed_methods_of_class(handler_data, request) ==
    LET handler == handler_data.handler
        name == lower(request.method)
    IN  IF name \notin handler_data.allowed_methods
        THEN [raised |-> TRUE, exc |-> MethodNotAllowed(request.method)]
        ELSE IF ~isclass(handler)
        THEN [raised |-> FALSE, handler |-> handler, member |-> "__call__"]
        ELSE IF name \in Members(handler)
        THEN [raised |-> FALSE, handler |-> handler, member |-> name]
        ELSE [raised |-> TRUE, exc |-> MethodNotAllowed(request.method)]

\* Handler resolution that calls whatever getattr returned for a class.
resolve_calls_missing_member(handler_data, request) ==
    LET handler == handler_data.handler
        name == lower(request.method)
    IN  IF isclass(handler)
        THEN [raised |-> FALSE, handler |-> handler, member |-> name]
        ELSE IF name \notin handler_data.allowed_methods
             THEN [raised |-> TRUE, exc |-> MethodNotAllowed(request.method)]
             ELSE [raised |-> FALSE, handler |-> handler, member |-> "__call__"]

\* Handler resolution: the callable handle_request ends up with, or the error.
resolve(handler_data, request) ==
    LET handler == handler_data.handler
        name == lower(request.method)
    IN  IF isclass(handler)
        THEN IF name \in Members(handler)
             THEN [raised |-> FALSE, handler |-> handler, member |-> name]
             ELSE [raised |-> TRUE, exc |-> MethodNotAllowed(request.method)]
        ELSE IF name \notin handler_data.allowed_methods
             THEN [raised |-> TRUE, exc |-> MethodNotAllowed(request.method)]
             ELSE [raised |-> FALSE, handler |-> handler, member |-> "__call__"]

\* A call of the handler that is made again when it raises.
invoke_retries(target, request, response, kwargs) ==
    LET b == HandlerBody(target.handler, target.member, response)
        ev == [kind |-> "handler", handler |-> target.handler,
               member |-> target.member, request |-> request, kwargs |-> kwargs]
    IN  IF b.raised
        THEN [events |-> <<ev, ev>>, response |-> b.response,
              raised |-> TRUE, exc |-> b.exc]
        ELSE [events |-> <<ev>>, response |-> b.response, raised |-> FALSE]

\* handler(request, response, **kwargs)
invoke(target, request, response, kwargs) ==
    LET b == HandlerBody(target.handler, target.member, response)
        ev == [kind |-> "handler", handler |-> target.handler,
               member |-> target.member, request |-> request, kwargs |-> kwargs]
    IN  IF b.raised
        THEN [events |-> <<ev>>, response |-> b.response, raised |-> TRUE, exc |-> b.exc]
        ELSE [events |-> <<ev>>, response |-> b.response, raised |-> FALSE]

\* The body of the try statement of handle_request.
try_body(fh, request, response) ==
    IF fh.found
    THEN LET target == resolve(fh.handler_data, request)
         IN  IF target.raised
             THEN [events |-> <<>>, response |-> response,
                   raised |-> TRUE, exc |-> target.exc]
             ELSE invoke(target, request, response, fh.kwargs)
    ELSE [events |-> <<>>, response |-> default_response(response), raised |-> FALSE]

\* An except clause that calls the exception handler and raises all the same.
except_clause_always_raises(eh, request, response, e) ==
    IF eh = NoHandler
    THEN [events |-> <<>>, result |-> [kind |-> "raised", exc |-> e]]
    ELSE [events |-> <<[kind |-> "exception_handler", handler |-> eh,
                        request |-> request, response |-> response, exception |-> e]>>,
          result |-> [kind |-> "raised", exc |-> e]]

\* An except clause that swallows the error when no exception handler is set.
except_clause_swallows(eh, request, response, e) ==
    IF eh = NoHandler
    THEN [events |-> <<>>, result |-> [kind |-> "returned", response |-> response]]
    ELSE LET b == ExceptionHandlerBody(eh, response)
             ev == [kind |-> "exception_handler", handler |-> eh,
                    request |-> request, response |-> response, exception |-> e]
         IN  IF b.raised
             THEN [events |-> <<ev>>, result |-> [kind |-> "raised", exc |-> b.exc]]
             ELSE [events |-> <<ev>>,
                   result |-> [kind |-> "returned", response |-> b.response]]

\* An except clause that catches what the exception handler raises and
\* returns the response.
except_clause_catches_second_error(eh, request, response, e) ==
    IF eh = NoHandler
    THEN [events |-> <<>>, result |-> [kind |-> "raised", exc |-> e]]
    ELSE LET b == ExceptionHandlerBody(eh, response)
             ev == [kind |-> "exception_handler", handler |-> eh,
                    request |-> request, response |-> response, exception |-> e]
         IN  [events |-> <<ev>>,
              result |-> [kind |-> "returned", response |-> b.response]]

\* The except clause of handle_request and the return that follows it.
except_clause(eh, request, response, e) ==
    IF eh = NoHandler
    THEN [events |-> <<>>, result |-> [kind |-> "raised", exc |-> e]]
    ELSE LET b == ExceptionHandlerBody(eh, response)
             ev == [kind |-> "exception_handler", handler |-> eh,
                    request |-> request, response |-> response, exception |-> e]
         IN  IF b.raised
             THEN [events |-> <<ev>>, result |-> [kind |-> "raised", exc |-> b.exc]]
             ELSE [events |-> <<ev>>,
                   result |-> [kind |-> "returned", response |-> b.response]]

\* handle_request that hands the exception handler a new Response.
handle_request_new_response(rts, eh, request) ==
    LET enter == [kind |-> "handle_request", request |-> request]
        fh == find_handler(rts, request.path)
        t == try_body(fh, request, Response)
    IN  IF t.raised
        THEN LET x == except_clause(eh, request, Response, t.exc)
             IN  [events |-> <<enter>> \o t.events \o x.events, result |-> x.result]
        ELSE [events |-> <<enter>> \o t.events,
              result |-> [kind |-> "returned", response |-> t.response]]

\* API.handle_request: the calls it makes, in order, and how it ends.
handle_request(rts, eh, request) ==
    LET enter == [kind |-> "handle_request", request |-> request]
        fh == find_handler(rts, request.path)
        t == try_body(fh, request, Response)
    IN  IF t.raised
        THEN LET x == except_clause(eh, request, t.response, t.exc)
             IN  [events |-> <<enter>> \o t.events \o x.events, result |-> x.result]
        ELSE [events |-> <<enter>> \o t.events,
              result |-> [kind |-> "returned", response |-> t.response]]

(***************************************************************************)
(* The WSGI entrypoint: API.__call__, API.wsgi_app, WhiteNoise and the     *)
(* middleware pipeline.                                                    *)
(***************************************************************************)
\* API.wsgi_app
wsgi_app(rts, eh, request) == handle_request(rts, eh, request)

\* A static-file server that answers every request itself: 404 when it has
\* no file for the path.
whitenoise_without_fallthrough(rts, eh, request) ==
    IF request.path \in StaticFiles
    THEN [events |-> <<[kind |-> "static_file", request |-> request]>>,
          result |-> [kind |-> "returned",
                      response |-> [status_code |-> 200, text |-> "FILE"]]]
    ELSE [events |-> <<>>,
          result |-> [kind |-> "returned",
                      response |-> [status_code |-> 404, text |-> "Not found"]]]

\* WhiteNoise(self.wsgi_app, root=static_dir, prefix='/static'): a file it
\* knows is served, anything else goes to the wrapped application.
whitenoise(rts, eh, request) ==
    IF request.path \in StaticFiles
    THEN [events |-> <<[kind |-> "static_file", request |-> request]>>,
          result |-> [kind |-> "returned",
                      response |-> [status_code |-> 200, text |-> "FILE"]]]
    ELSE wsgi_app(rts, eh, request)

\* Middleware.__call__, the composed pipeline: the process_request hook of
\* every class, outermost first, the dispatcher, and, when it returned a
\* response, the process_response hooks from the innermost outwards.  An error
\* the dispatcher raises passes through the pipeline.
Middleware_call(mw, rts, eh, request) ==
    LET pre == [i \in 1..Len(mw) |-> [kind |-> "process_request", cls |-> mw[i]]]
        core == wsgi_app(rts, eh, request)
        post == [i \in 1..Len(mw) |->
                    [kind |-> "process_response", cls |-> mw[Len(mw) + 1 - i]]]
    IN  IF core.result.kind = "returned"
        THEN [events |-> pre \o core.events \o post, result |-> core.result]
        ELSE [events |-> pre \o core.events, result |-> core.result]

\* __call__ with the pipeline in front of the static branch as well.
call_static_through_pipeline(mw, rts, eh, request) ==
    IF startswith(request.path, StaticPrefix)
    THEN LET pre == [i \in 1..Len(mw) |-> [kind |-> "process_request", cls |-> mw[i]]]
             core == whitenoise(rts, eh, request)
             post == [i \in 1..Len(mw) |->
                         [kind |-> "process_response", cls |-> mw[Len(mw) + 1 - i]]]
         IN  IF core.result.kind = "returned"
             THEN [events |-> pre \o core.events \o post, result |-> core.result]
             ELSE [events |-> pre \o core.events, result |-> core.result]
    ELSE Middleware_call(mw, rts, eh, request)

\* __call__ as it was before the middleware pipeline: everything to WhiteNoise.
call_without_pipeline(mw, rts, eh, request) == whitenoise(rts, eh, request)

\* API.__call__
call(mw, rts, eh, request) ==
    IF startswith(request.path, StaticPrefix)
    THEN whitenoise(rts, eh, request)
    ELSE Middleware_call(mw, rts, eh, request)

(***************************************************************************)
(* The state machine: the API object after construction and one action per *)
(* call made on it.                                                        *)
(***************************************************************************)
Init ==
    /\ routes = <<>>
    /\ exception_handler = NoHandler
    /\ middleware = <<>>
    /\ registered = <<>>
    /\ installed = <<>>
    /\ heap = <<>>
    /\ threads = [t \in Threads |-> Idle]
    /\ op = [name |-> "__init__"]
    /\ events = <<>>
    /\ result = [kind |-> "returned"]

AddRoute(path, handler, allowed_methods) ==
    LET r == add_route(routes, path, handler, allowed_methods)
    IN  /\ Len(routes) < MaxRoutes \/ path \in RoutePaths(routes)
        /\ routes' = r.routes
        /\ op' = [name |-> "add_route", path |-> path, handler |-> handler]
        /\ events' = <<>>
        /\ result' = IF r.raised THEN [kind |-> "raised", exc |-> r.exc]
                                 ELSE [kind |-> "returned"]
        /\ UNCHANGED <<exception_handler, middleware, registered, installed, heap, threads>>

AddExceptionHandler(h) ==
    /\ \A i \in 1..Len(installed) : installed[i] # h
    /\ exception_handler' = add_exception_handler(exception_handler, h)
    /\ installed' = Append(installed, h)
    /\ op' = [name |-> "add_exception_handler"]
    /\ events' = <<>>
    /\ result' = [kind |-> "returned"]
    /\ UNCHANGED <<routes, middleware, registered, heap, threads>>

AddMiddleware(cls) ==
    /\ \A i \in 1..Len(registered) : registered[i] # cls
    /\ middleware' = add_middleware(middleware, cls)
    /\ registered' = Append(registered, cls)
    /\ op' = [name |-> "add_middleware"]
    /\ events' = <<>>
    /\ result' = [kind |-> "returned"]
    /\ UNCHANGED <<routes, exception_handler, installed, heap, threads>>

Call(request) ==
    LET r == call(middleware, routes, exception_handler, request)
    IN  /\ op' = [name |-> "__call__", request |-> request]
        /\ events' = r.events
        /\ result' = r.result
        /\ UNCHANGED <<routes, exception_handler, middleware, registered, installed,
                       heap, threads>>

Next ==
    \/ \E p \in Patterns, r \in Registrations :
            AddRoute(p, r.handler, r.allowed_methods)
    \/ \E h \in ExceptionHandlers : AddExceptionHandler(h)
    \/ \E c \in MiddlewareClasses : AddMiddleware(c)
    \/ \E request \in Requests : Call(request)

Spec == Init /\ [][Next]_vars

(***************************************************************************)
(* Concurrent dispatches against a route table built beforehand: each      *)
(* thread runs API.handle_request once, statement by statement.  Response  *)
(* objects live in heap; a thread holds a reference (an index of heap) in  *)
(* its local variable response.                                            *)
(***************************************************************************)
\* A single Response object handed to every dispatch.
new_response_shared(hp) ==
    IF hp = <<>>
    THEN [heap |-> <<Response>>, ref |-> 1]
    ELSE [heap |-> hp, ref |-> 1]

\* response = Response(): a new object.
new_response(hp) == [heap |-> Append(hp, Response), ref |-> Len(hp) + 1]

\* The route tables the application has built: '/a' and '/{name}', each
\* registered with any handler.
BuiltRouteTables ==
    { add_route(add_route(<<>>, <<"/", "a">>, r1.handler, r1.allowed_methods).routes,
                <<"/", Field>>, r2.handler, r2.allowed_methods).routes :
        r1 \in Registrations, r2 \in Registrations }

InitBuilt ==
    /\ routes \in BuiltRouteTables
    /\ exception_handler \in ExceptionHandlers \cup {NoHandler}
    /\ installed = IF exception_handler = NoHandler THEN <<>> ELSE <<exception_handler>>
    /\ middleware = <<>>
    /\ registered = <<>>
    /\ heap = <<>>
    /\ threads = [t \in Threads |-> Idle]
    /\ op = [name |-> "__init__"]
    /\ events = <<>>
    /\ result = [kind |-> "returned"]

\* handle_request is entered and creates its response.
Begin(t, request) ==
    LET n == new_response(heap)
    IN  /\ threads[t].pc = "idle"
        /\ heap' = n.heap
        /\ threads' = [threads EXCEPT ![t] =
                          [pc |-> "try", request |-> request, response |-> n.ref]]
        /\ UNCHANGED <<routes, exception_handler, middleware, registered, installed,
                       op, events, result>>

\* find_handler and the try statement: the handler, or default_response,
\* writes to the thread's response object.
Try(t) ==
    LET th == threads[t]
        r == try_body(find_handler(routes, th.request.path), th.request,
                      heap[th.response])
    IN  /\ th.pc = "try"
        /\ heap' = [heap EXCEPT ![th.response] = r.response]
        /\ threads' = [threads EXCEPT ![t] =
                          IF r.raised
                          THEN [pc |-> "except", request |-> th.request,
                                response |-> th.response, exc |-> r.exc]
                          ELSE [pc |-> "return", request |-> th.request,
                                response |-> th.response]]
        /\ UNCHANGED <<routes, exception_handler, middleware, registered, installed,
                       op, events, result>>

\* The except clause: re-raise, or the exception handler writes to the
\* thread's response object or raises.
Except(t) ==
    LET th == threads[t]
        x == except_clause(exception_handler, th.request, heap[th.response], th.exc)
    IN  /\ th.pc = "except"
        /\ heap' = IF x.result.kind = "returned"
                   THEN [heap EXCEPT ![th.response] = x.result.response]
                   ELSE heap
        /\ threads' = [threads EXCEPT ![t] =
                          IF x.result.kind = "returned"
                          THEN [pc |-> "return", request |-> th.request,
                                response |-> th.response]
                          ELSE [pc |-> "done", request |-> th.request,
                                response |-> th.response, result |-> x.result]]
        /\ UNCHANGED <<routes, exception_handler, middleware, registered, installed,
                       op, events, result>>

\* return response: the caller reads the object the thread refers to.
Return(t) ==
    LET th == threads[t]
    IN  /\ th.pc = "return"
        /\ threads' = [threads EXCEPT ![t] =
                          [pc |-> "done", request |-> th.request,
                           response |-> th.response,
                           result |-> [kind |-> "returned",
                                       response |-> heap[th.response]]]]
        /\ UNCHANGED <<routes, exception_handler, middleware, registered, installed,
                       heap, op, events, result>>

NextConcurrent ==
    \/ \E t \in Threads, request \in Requests : Begin(t, request)
    \/ \E t \in Threads : Try(t)
    \/ \E t \in Threads : Except(t)
    \/ \E t \in Threads : Return(t)

SpecConcurrent == InitBuilt /\ [][NextConcurrent]_vars

(***************************************************************************)
(* An application with a single route, requested with every one of the     *)
(* nine standard methods.                                                  *)
(***************************************************************************)
AddFirstRoute(path, handler, allowed_methods) ==
    /\ routes = <<>>
    /\ AddRoute(path, handler, allowed_methods)

CallWithStandardMethod(request) == Call(request)

NextStandardMethods ==
    \/ \E p \in Patterns, r \in Registrations :
            AddFirstRoute(p, r.handler, r.allowed_methods)
    \/ \E h \in ExceptionHandlers : AddExceptionHandler(h)
    \/ \E request \in [path : Paths, method : StandardMethods] :
            CallWithStandardMethod(request)

SpecStandardMethods == Init /\ [][NextStandardMethods]_vars

(***************************************************************************)
(* Observations on the history variables.                                  *)
(***************************************************************************)
EventIndexes(kind) == { i \in 1..Len(events) : events[i].kind = kind }

\* The last operation was a request that reached API.handle_request.
Dispatched == op.name = "__call__" /\ EventIndexes("handle_request") # {}

\* The path of the dispatched request parses against no registered pattern.
NoPatternMatches(path) == \A i \in 1..Len(routes) : ~parse(routes[i].path, path).ok

\* The error e was raised inside the try statement of the last dispatch: it
\* reached the caller or was handed to the exception handler.
RaisedInDispatch(e) ==
    \/ result = [kind |-> "raised", exc |-> e]
    \/ \E i \in EventIndexes("exception_handler") : events[i].exception = e

(***************************************************************************)
(* C1: add_route with a pattern that is already in the route table fails   *)
(* with the duplicate-route error, whatever the kinds of the two handlers, *)
(* and leaves the route table as it was.                                   *)
(***************************************************************************)
C1_DuplicateRouteRejected ==
    [][ (op'.name = "add_route" /\ op'.path \in RoutePaths(routes))
            => /\ result' = [kind |-> "raised", exc |-> DuplicateRoute(op'.path)]
               /\ routes' = routes ]_vars

\* A class is registered, and registering a function under its pattern failed.
C1_Witness ==
    /\ op.name = "add_route"
    /\ result.kind = "raised"
    /\ ~isclass(op.handler)
    /\ \E i \in 1..Len(routes) : routes[i].path = op.path /\ isclass(routes[i].handler)

(***************************************************************************)
(* C2: a dispatch whose path matches no registered pattern returns status  *)
(* 404 and body "Not found" for every method, invokes neither a route      *)
(* handler nor the exception handler, and does not raise, with or without  *)
(* an exception handler registered.                                        *)
(***************************************************************************)
C2_UnmatchedPathIs404 ==
    (Dispatched /\ NoPatternMatches(op.request.path))
        => /\ result = [kind |-> "returned",
                        response |-> [status_code |-> 404, text |-> "Not found"]]
           /\ EventIndexes("handler") = {}
           /\ EventIndexes("exception_handler") = {}

\* A POST to an unmatched path with routes and an exception handler registered.
C2_Witness ==
    /\ Dispatched
    /\ NoPatternMatches(op.request.path)
    /\ op.request.method = "POST"
    /\ routes # <<>>
    /\ exception_handler # NoHandler
(***************************************************************************)
(* C3, as stated: for any registered pattern with a placeholder and any    *)
(* value v without '/', a dispatch to the path with v substituted invokes  *)
(* that pattern's handler with name = v.  The statement is read in its     *)
(* favour: v is a non-empty segment (a field of the parse library matches  *)
(* one character at least) and the request method is one the route         *)
(* accepts.                                                                *)
(***************************************************************************)
HasField(pattern) == \E i \in 1..Len(pattern) : pattern[i] = Field

HandlerInvokedWith(handler, kwargs) ==
    \E i \in EventIndexes("handler") :
        events[i].handler = handler /\ events[i].kwargs = kwargs

\* The request method passes the route's method test: a member of the class
\* for a class, an element of allowed_methods for a function.
MethodPermitted(route, method) ==
    IF isclass(route.handler)
    THEN lower(method) \in Members(route.handler)
    ELSE lower(method) \in route.allowed_methods

\* Route i is the first registered route whose pattern matches the path.
FirstMatch(i, path) ==
    /\ parse(routes[i].path, path).ok
    /\ \A j \in 1..(i - 1) : ~parse(routes[j].path, path).ok

C3_Original ==
    \A i \in 1..Len(routes), v \in Values :
        (/\ Dispatched
         /\ HasField(routes[i].path)
         /\ op.request.path = substitute(routes[i].path, v)
         /\ v # <<>>
         /\ MethodPermitted(routes[i], op.request.method))
            => HandlerInvokedWith(routes[i].handler, {<<"name", v>>})

(***************************************************************************)
(* C3, amended: for any registered pattern with a placeholder and any      *)
(* non-empty value v without '/', a dispatch to the substituted path       *)
(* invokes that pattern's handler with name = v, provided no pattern       *)
(* registered earlier matches the path and the request method passes the   *)
(* route's method test.                                                    *)
(***************************************************************************)
C3_PlaceholderExtracted ==
    \A i \in 1..Len(routes), v \in Values :
        (/\ Dispatched
         /\ HasField(routes[i].path)
         /\ op.request.path = substitute(routes[i].path, v)
         /\ v # <<>>
         /\ \A j \in 1..(i - 1) : ~parse(routes[j].path, op.request.path).ok
         /\ MethodPermitted(routes[i], op.request.method))
            => HandlerInvokedWith(routes[i].handler, {<<"name", v>>})

\* The second of two routes has the placeholder and received its value.
C3_Witness ==
    /\ Dispatched
    /\ Len(routes) = 2
    /\ HasField(routes[2].path)
    /\ op.request.path = substitute(routes[2].path, <<"b">>)
    /\ ~parse(routes[1].path, op.request.path).ok
    /\ HandlerInvokedWith(routes[2].handler, {<<"name", <<"b">>>>})

(***************************************************************************)
(* C4: for a function handler registered with a restricted allowed_methods *)
(* set, a dispatch with a method outside the set raises the                *)
(* method-not-allowed error and the handler is not invoked; a dispatch     *)
(* with a method inside the set passes the test and invokes the handler    *)
(* exactly once, and returns its response when the handler returns.        *)
(***************************************************************************)
HandlerRaises(handler, member) == HandlerBody(handler, member, Response).raised

C4_FunctionMethodGate ==
    \A i \in 1..Len(routes) :
        (/\ Dispatched
         /\ FirstMatch(i, op.request.path)
         /\ ~isclass(routes[i].handler)
         /\ routes[i].allowed_methods # DefaultAllowedMethods)
            => IF lower(op.request.method) \in routes[i].allowed_methods
               THEN /\ Cardinality(EventIndexes("handler")) = 1
                    /\ \A k \in EventIndexes("handler") :
                            events[k].handler = routes[i].handler
                    /\ ~RaisedInDispatch(MethodNotAllowed(op.request.method))
                    /\ ~HandlerRaises(routes[i].handler, "__call__")
                            => result = [kind |-> "returned",
                                         response |-> HandlerBody(routes[i].handler,
                                                          "__call__", Response).response]
               ELSE /\ RaisedInDispatch(MethodNotAllowed(op.request.method))
                    /\ EventIndexes("handler") = {}

\* A restricted function was refused a GET.
C4_Witness ==
    \E i \in 1..Len(routes) :
        /\ Dispatched
        /\ FirstMatch(i, op.request.path)
        /\ routes[i].handler = "home"
        /\ routes[i].allowed_methods = {"post"}
        /\ op.request.method = "GET"
        /\ result = [kind |-> "raised", exc |-> MethodNotAllowed("GET")]

(***************************************************************************)
(* C5: for a class-based handler with no member named by the lowercased    *)
(* request method, the dispatch raises the method-not-allowed error        *)
(* carrying the attempted method, no member of the class is invoked, and   *)
(* with no exception handler registered the error reaches the caller       *)
(* instead of a response.                                                  *)
(***************************************************************************)
C5_ClassMissingMember ==
    \A i \in 1..Len(routes) :
        (/\ Dispatched
         /\ FirstMatch(i, op.request.path)
         /\ isclass(routes[i].handler)
         /\ lower(op.request.method) \notin Members(routes[i].handler))
            => /\ RaisedInDispatch(MethodNotAllowed(op.request.method))
               /\ EventIndexes("handler") = {}
               /\ exception_handler = NoHandler
                    => result = [kind |-> "raised",
                                 exc |-> MethodNotAllowed(op.request.method)]

\* A POST to a class with only a get member, no exception handler registered.
C5_Witness ==
    \E i \in 1..Len(routes) :
        /\ Dispatched
        /\ FirstMatch(i, op.request.path)
        /\ isclass(routes[i].handler)
        /\ op.request.method = "POST"
        /\ exception_handler = NoHandler
        /\ result.kind = "raised"
(***************************************************************************)
(* Observations on the middleware hooks of the last operation.             *)
(***************************************************************************)
Reverse(s) == [i \in 1..Len(s) |-> s[Len(s) + 1 - i]]

IsProcessRequest(e) == e.kind = "process_request"

IsProcessResponse(e) == e.kind = "process_response"

\* The classes whose process_request hook ran, in the order they ran.
PreHooks ==
    LET hooks == SelectSeq(events, IsProcessRequest)
    IN  [i \in 1..Len(hooks) |-> hooks[i].cls]

\* The classes whose process_response hook ran, in the order they ran.
PostHooks ==
    LET hooks == SelectSeq(events, IsProcessResponse)
    IN  [i \in 1..Len(hooks) |-> hooks[i].cls]

Elements(s) == { s[i] : i \in 1..Len(s) }

\* Every registered unit's process_request hook ran once, before the handler.
AllPreHooksBeforeHandler ==
    /\ Len(PreHooks) = Len(registered)
    /\ Elements(PreHooks) = Elements(registered)
    /\ \A i \in EventIndexes("process_request"), h \in EventIndexes("handler") : i < h

\* Every registered unit's process_response hook ran once, after the handler,
\* in the reverse of the order of the process_request hooks.
AllPostHooksAfterHandlerReversed ==
    /\ Len(PostHooks) = Len(registered)
    /\ PostHooks = Reverse(PreHooks)
    /\ \A i \in EventIndexes("process_response"), h \in EventIndexes("handler") : h < i

(***************************************************************************)
(* C6, as stated: with N middleware units registered, a request entering   *)
(* the WSGI entrypoint runs all N process_request hooks before the route   *)
(* handler and all N process_response hooks after it, in reverse order.    *)
(* The statement is read in its favour: only requests whose route handler  *)
(* ran and which ended with a response are considered.                     *)
(***************************************************************************)
C6_Original ==
    (/\ op.name = "__call__"
     /\ EventIndexes("handler") # {}
     /\ result.kind = "returned")
        => AllPreHooksBeforeHandler /\ AllPostHooksAfterHandlerReversed

(***************************************************************************)
(* C6, amended: with N middleware units registered, a request whose path   *)
(* does not begin with '/static' runs all N process_request hooks before   *)
(* the route handler and, when the dispatch returns a response, all N      *)
(* process_response hooks after it, in the exact reverse order.            *)
(***************************************************************************)
C6_HooksBracketHandler ==
    (op.name = "__call__" /\ ~startswith(op.request.path, StaticPrefix))
        => /\ AllPreHooksBeforeHandler
           /\ result.kind = "returned" => AllPostHooksAfterHandlerReversed

\* Two units registered and a route handler ran between their hooks.
C6_Witness ==
    /\ op.name = "__call__"
    /\ ~startswith(op.request.path, StaticPrefix)
    /\ Len(registered) = 2
    /\ EventIndexes("handler") # {}
    /\ PreHooks = registered
    /\ PostHooks = Reverse(registered)

(***************************************************************************)
(* C7: with several middleware units registered, the most recently         *)
(* registered one is innermost: its process_request hook is the last hook  *)
(* to run before the core dispatch call and its process_response hook is   *)
(* the first hook to run after it.                                         *)
(***************************************************************************)
C7_LastRegisteredInnermost ==
    (/\ op.name = "__call__"
     /\ registered # <<>>
     /\ EventIndexes("process_request") # {})
        => LET last == registered[Len(registered)]
           IN  \A h \in EventIndexes("handle_request") :
                /\ h > 1
                /\ events[h - 1] = [kind |-> "process_request", cls |-> last]
                /\ \A k \in EventIndexes("process_response") :
                        (\A j \in EventIndexes("process_response") : k <= j)
                            => events[k].cls = last /\ k > h

\* Two units: the second registered ran last before and first after the core.
C7_Witness ==
    /\ op.name = "__call__"
    /\ Len(registered) = 2
    /\ EventIndexes("handle_request") # {}
    /\ PreHooks = <<registered[1], registered[2]>>
    /\ PostHooks = <<registered[2], registered[1]>>
(***************************************************************************)
(* The errors of a dispatch to route i: the method test fails, or the      *)
(* handler it selects raises.                                              *)
(***************************************************************************)
Member(route, method) == IF isclass(route.handler) THEN lower(method) ELSE "__call__"

Fails(route, method) ==
    \/ ~MethodPermitted(route, method)
    \/ HandlerRaises(route.handler, Member(route, method))

\* The error the dispatch to the route raises.
DispatchError(route, method) ==
    IF ~MethodPermitted(route, method)
    THEN MethodNotAllowed(method)
    ELSE HandlerBody(route.handler, Member(route, method), Response).exc

\* The response of the dispatch at the moment the error is raised.
InProgress(route, method) ==
    IF ~MethodPermitted(route, method)
    THEN Response
    ELSE HandlerBody(route.handler, Member(route, method), Response).response

ResponseFields == {"status_code", "text"}

\* The fields of a response the exception handler assigns.
FieldsSetBy(eh) ==
    { f \in ResponseFields : ExceptionHandlerBody(eh, Response).response[f] # Response[f] }

(***************************************************************************)
(* C8, as stated: with an exception handler registered, an error raised    *)
(* during handler resolution or inside a route handler is caught once: the *)
(* exception handler is invoked exactly once with the request, the         *)
(* dispatch's response and the exception, and the dispatch then returns    *)
(* that response instead of raising.                                       *)
(***************************************************************************)
ExceptionHandlerCalledOnce(route) ==
    /\ Cardinality(EventIndexes("exception_handler")) = 1
    /\ \A k \in EventIndexes("exception_handler") :
            events[k] = [kind |-> "exception_handler",
                         handler |-> exception_handler,
                         request |-> op.request,
                         response |-> InProgress(route, op.request.method),
                         exception |-> DispatchError(route, op.request.method)]

ReturnsHandledResponse(route) ==
    result = [kind |-> "returned",
              response |-> ExceptionHandlerBody(exception_handler,
                              InProgress(route, op.request.method)).response]

C8_Original ==
    \A i \in 1..Len(routes) :
        (/\ Dispatched
         /\ exception_handler # NoHandler
         /\ FirstMatch(i, op.request.path)
         /\ Fails(routes[i], op.request.method))
            => ExceptionHandlerCalledOnce(routes[i]) /\ ReturnsHandledResponse(routes[i])

(***************************************************************************)
(* C8, amended: with an exception handler registered, such an error is     *)
(* caught once and the exception handler is invoked exactly once with the  *)
(* request, the dispatch's response and the exception; the dispatch then   *)
(* returns that response instead of raising, unless the exception handler  *)
(* itself raises.                                                          *)
(***************************************************************************)
C8_ErrorHandledOnce ==
    \A i \in 1..Len(routes) :
        (/\ Dispatched
         /\ exception_handler # NoHandler
         /\ FirstMatch(i, op.request.path)
         /\ Fails(routes[i], op.request.method))
            => /\ ExceptionHandlerCalledOnce(routes[i])
               /\ ~ExceptionHandlerBody(exception_handler, Response).raised
                    => ReturnsHandledResponse(routes[i])

\* A method-not-allowed error was handed to the exception handler and a
\* response came back.
C8_Witness ==
    \E i \in 1..Len(routes) :
        /\ Dispatched
        /\ exception_handler = "on_exception"
        /\ FirstMatch(i, op.request.path)
        /\ ~MethodPermitted(routes[i], op.request.method)
        /\ Cardinality(EventIndexes("exception_handler")) = 1
        /\ result.kind = "returned"

(***************************************************************************)
(* C9, as stated: when a route handler mutates the response and then       *)
(* raises, and an exception handler is registered, every field of the      *)
(* final response that the exception handler did not set has its fresh     *)
(* default value, not the value the failed route handler wrote.            *)
(***************************************************************************)
\* Route i's handler ran, wrote to the response and raised; the exception
\* handler turned the error into the response returned.
MutatedRaisedAndHandled(i) ==
    /\ Dispatched
    /\ FirstMatch(i, op.request.path)
    /\ MethodPermitted(routes[i], op.request.method)
    /\ HandlerRaises(routes[i].handler, Member(routes[i], op.request.method))
    /\ InProgress(routes[i], op.request.method) # Response
    /\ exception_handler # NoHandler
    /\ result.kind = "returned"

C9_Original ==
    \A i \in 1..Len(routes) :
        MutatedRaisedAndHandled(i)
            => \A f \in ResponseFields \ FieldsSetBy(exception_handler) :
                    result.response[f] = Response[f]

(***************************************************************************)
(* C9, amended: in that case the final response is the response the failed *)
(* route handler mutated, with the exception handler's mutations on top:   *)
(* every field the exception handler did not set keeps the value the       *)
(* failed route handler wrote.                                             *)
(***************************************************************************)
C9_FailedHandlerMutationsKept ==
    \A i \in 1..Len(routes) :
        MutatedRaisedAndHandled(i)
            => /\ \A f \in ResponseFields \ FieldsSetBy(exception_handler) :
                    result.response[f] = InProgress(routes[i], op.request.method)[f]
               /\ \A f \in FieldsSetBy(exception_handler) :
                    result.response[f] =
                        ExceptionHandlerBody(exception_handler, Response).response[f]

\* The status the failed handler wrote is in the response returned.
C9_Witness ==
    /\ \E i \in 1..Len(routes) : MutatedRaisedAndHandled(i)
    /\ result.response = [status_code |-> 201, text |-> "AttributeErrorHappened"]

(***************************************************************************)
(* C10: with no exception handler registered, an error raised during       *)
(* handler resolution or handler invocation is re-raised to the caller of  *)
(* the dispatch: no response is returned, whatever the handler had written *)
(* to the response in progress.                                            *)
(***************************************************************************)
C10_UnhandledErrorReraised ==
    \A i \in 1..Len(routes) :
        (/\ Dispatched
         /\ exception_handler = NoHandler
         /\ FirstMatch(i, op.request.path)
         /\ Fails(routes[i], op.request.method))
            => /\ result = [kind |-> "raised",
                            exc |-> DispatchError(routes[i], op.request.method)]
               /\ EventIndexes("exception_handler") = {}

\* A handler wrote to the response and raised; the caller got the error.
C10_Witness ==
    \E i \in 1..Len(routes) :
        /\ Dispatched
        /\ exception_handler = NoHandler
        /\ FirstMatch(i, op.request.path)
        /\ EventIndexes("handler") # {}
        /\ InProgress(routes[i], op.request.method) # Response
        /\ result = [kind |-> "raised", exc |-> HandlerError]
(***************************************************************************)
(* C11: a function handler registered without allowed_methods is invoked   *)
(* for a request with any of the nine standard methods (GET, HEAD, POST,   *)
(* PUT, DELETE, CONNECT, OPTIONS, TRACE, PATCH) whose path its route is    *)
(* the first to match; none of them raises the method-not-allowed error.   *)
(***************************************************************************)
C11_DefaultAllowsStandardMethods ==
    \A i \in 1..Len(routes) :
        ( /\ Dispatched
          /\ ~isclass(routes[i].handler)
          /\ routes[i].allowed_methods = DefaultAllowedMethods
          /\ FirstMatch(i, op.request.path)
          /\ op.request.method \in StandardMethods )
            => /\ HandlerInvokedWith(routes[i].handler,
                                     parse(routes[i].path, op.request.path).named)
               /\ ~RaisedInDispatch(MethodNotAllowed(op.request.method))

\* A PATCH request was answered by the function registered with the default.
C11_Witness ==
    /\ Dispatched
    /\ op.request.method = "PATCH"
    /\ \E i \in 1..Len(routes) :
            /\ routes[i].allowed_methods = DefaultAllowedMethods
            /\ FirstMatch(i, op.request.path)
    /\ result = [kind |-> "returned",
                 response |-> [status_code |-> 200, text |-> "Hello"]]

(***************************************************************************)
(* C12: the exception handler is a single slot.  After any sequence of     *)
(* add_exception_handler calls, an error raised during a dispatch invokes  *)
(* the most recently registered exception handler, once, and invokes none  *)
(* of the handlers registered before it.                                   *)
(***************************************************************************)
C12_LastExceptionHandlerOnly ==
    \A i \in 1..Len(routes) :
        ( /\ Dispatched
          /\ installed # <<>>
          /\ FirstMatch(i, op.request.path)
          /\ Fails(routes[i], op.request.method) )
            => /\ Cardinality(EventIndexes("exception_handler")) = 1
               /\ \A k \in EventIndexes("exception_handler") :
                    /\ events[k].handler = installed[Len(installed)]
                    /\ \A j \in 1..(Len(installed) - 1) :
                            events[k].handler # installed[j]

\* Two handlers were registered, the one that returns last, and an error of a
\* dispatch was translated by it.
C12_Witness ==
    /\ Dispatched
    /\ installed = <<"on_exception_raises", "on_exception">>
    /\ RaisedInDispatch(HandlerError)
    /\ result = [kind |-> "returned",
                 response |-> [status_code |-> 201, text |-> "AttributeErrorHappened"]]

(***************************************************************************)
(* C13: when the request path matches more than one registered pattern,    *)
(* the dispatch is resolved against the pattern registered first, whatever *)
(* the order of registration: that route's handler is invoked with the     *)
(* values its pattern extracts (or the method test of that route raises),  *)
(* and the handler of a pattern registered later is not invoked.           *)
(***************************************************************************)
C13_FirstRegisteredWins ==
    \A i \in 1..Len(routes), j \in 1..Len(routes) :
        ( /\ Dispatched
          /\ i < j
          /\ FirstMatch(i, op.request.path)
          /\ parse(routes[j].path, op.request.path).ok )
            => /\ IF MethodPermitted(routes[i], op.request.method)
                  THEN HandlerInvokedWith(routes[i].handler,
                                          parse(routes[i].path, op.request.path).named)
                  ELSE RaisedInDispatch(MethodNotAllowed(op.request.method))
               /\ \A k \in EventIndexes("handler") :
                    /\ events[k].handler = routes[i].handler
                    /\ events[k].kwargs = parse(routes[i].path, op.request.path).named
               /\ ~HandlerInvokedWith(routes[j].handler,
                                      parse(routes[j].path, op.request.path).named)

\* '/a/b' matches '/a/{name}', registered first, and '/{name}', registered
\* second with a handler that fails: the first one answered.
C13_Witness ==
    /\ Dispatched
    /\ Len(routes) = 2
    /\ routes[1].path = <<"/", "a", "/", Field>>
    /\ routes[1].handler = "home"
    /\ routes[2].path = <<"/", Field>>
    /\ routes[2].handler = "index"
    /\ op.request = [path |-> <<"/", "a", "/", "b">>, method |-> "POST"]
    /\ HandlerInvokedWith("home", parse(routes[1].path, op.request.path).named)
    /\ result = [kind |-> "returned",
                 response |-> [status_code |-> 200, text |-> "Hello"]]

(***************************************************************************)
(* C14, as stated: every dispatch, from any setup of routes and exception  *)
(* handler and for any request, finishes by returning a response.          *)
(***************************************************************************)
C14_Original == Dispatched => result.kind = "returned"

\* The dispatch leaves handle_request through a raise statement: the matched
\* route fails and no exception handler is registered, or the registered one
\* raises.
EndsByRaising ==
    \E i \in 1..Len(routes) :
        /\ FirstMatch(i, op.request.path)
        /\ Fails(routes[i], op.request.method)
        /\ \/ exception_handler = NoHandler
           \/ ExceptionHandlerBody(exception_handler, Response).raised

(***************************************************************************)
(* C14: a dispatch finishes by returning a response (from the handler, the *)
(* 404 default or the exception handler) unless an error is raised and no  *)
(* exception handler is registered or the exception handler raises; then   *)
(* it finishes by raising and returns no response.                         *)
(***************************************************************************)
C14_ReturnsUnlessUnhandled ==
    Dispatched =>
        IF EndsByRaising
        THEN result.kind = "raised"
        ELSE /\ result.kind = "returned"
             /\ result.response \in [status_code : {200, 201, 404},
                                     text : {"", "Hello", "suuuup", "partial",
                                             "Not found", "AttributeErrorHappened"}]

\* A dispatch whose handler raised finished by returning what the exception
\* handler made of the response.
C14_Witness ==
    /\ Dispatched
    /\ exception_handler = "on_exception"
    /\ RaisedInDispatch(HandlerError)
    /\ ~EndsByRaising
    /\ result.kind = "returned"

(***************************************************************************)
(* C15, as stated: a placeholder matches only characters of one path       *)
(* segment.  With '/{name}' the only route, a request path whose           *)
(* placeholder part would have to contain '/' (such as '/a/b') does not    *)
(* match, and the dispatch yields the 404 default response.                *)
(***************************************************************************)
ContainsSlash(s) == \E i \in 1..Len(s) : s[i] = "/"

\* '/{name}' is the only route and the dispatched path is '/' followed by
\* text with a '/' in it.
OnlyFieldRouteAndNestedPath ==
    /\ Dispatched
    /\ Len(routes) = 1
    /\ routes[1].path = <<"/", Field>>
    /\ Head(op.request.path) = "/"
    /\ ContainsSlash(Tail(op.request.path))

C15_Original ==
    OnlyFieldRouteAndNestedPath
        => /\ result = [kind |-> "returned",
                        response |-> [status_code |-> 404, text |-> "Not found"]]
           /\ EventIndexes("handler") = {}

(***************************************************************************)
(* C15: a placeholder matches any non-empty run of characters, '/'         *)
(* included.  With '/{name}' the only route, a request path such as '/a/b' *)
(* matches with name = 'a/b': the route is resolved (its handler is        *)
(* invoked with that value, or its method test raises) and the dispatch    *)
(* does not yield the 404 default response.                                *)
(***************************************************************************)
C15_PlaceholderSpansSegments ==
    OnlyFieldRouteAndNestedPath
        => /\ parse(routes[1].path, op.request.path) =
                [ok |-> TRUE, named |-> {<<"name", Tail(op.request.path)>>}]
           /\ IF MethodPermitted(routes[1], op.request.method)
              THEN HandlerInvokedWith(routes[1].handler,
                                      {<<"name", Tail(op.request.path)>>})
              ELSE RaisedInDispatch(MethodNotAllowed(op.request.method))
           /\ result # [kind |-> "returned",
                        response |-> [status_code |-> 404, text |-> "Not found"]]

\* GET /a/b with '/{name}' the only route: home ran with name = 'a/b'.
C15_Witness ==
    /\ OnlyFieldRouteAndNestedPath
    /\ op.request.path = <<"/", "a", "/", "b">>
    /\ HandlerInvokedWith("home", {<<"name", <<"a", "/", "b">>>>})
    /\ result = [kind |-> "returned",
                 response |-> [status_code |-> 200, text |-> "Hello"]]

(***************************************************************************)
(* C16: for a class-based handler the allowed_methods of its route is not  *)
(* applied.  A request whose lower-cased method names a member of the      *)
(* class invokes that member, also when the method is not in the route's   *)
(* allowed_methods; a request whose method names no member raises the      *)
(* method-not-allowed error and invokes nothing, also when the method is   *)
(* in allowed_methods.                                                     *)
(***************************************************************************)
C16_ClassIgnoresAllowedMethods ==
    \A i \in 1..Len(routes) :
        ( /\ Dispatched
          /\ isclass(routes[i].handler)
          /\ FirstMatch(i, op.request.path) )
            => IF lower(op.request.method) \in Members(routes[i].handler)
               THEN /\ \E k \in EventIndexes("handler") :
                            /\ events[k].handler = routes[i].handler
                            /\ events[k].member = lower(op.request.method)
                    /\ ~RaisedInDispatch(MethodNotAllowed(op.request.method))
               ELSE /\ EventIndexes("handler") = {}
                    /\ RaisedInDispatch(MethodNotAllowed(op.request.method))

\* A class registered for 'post' alone answered a GET with its member get.
C16_Witness ==
    \E i \in 1..Len(routes) :
        /\ Dispatched
        /\ isclass(routes[i].handler)
        /\ FirstMatch(i, op.request.path)
        /\ op.request.method = "GET"
        /\ "get" \in Members(routes[i].handler)
        /\ "get" \notin routes[i].allowed_methods
        /\ \E k \in EventIndexes("handler") : events[k].member = "get"
        /\ result = [kind |-> "returned",
                     response |-> [status_code |-> 200, text |-> "suuuup"]]

\* The same class raised method-not-allowed for a POST, a method its route
\* lists in allowed_methods.
C16_AllowedButNoMember ==
    \E i \in 1..Len(routes) :
        /\ Dispatched
        /\ isclass(routes[i].handler)
        /\ FirstMatch(i, op.request.path)
        /\ op.request.method = "POST"
        /\ "post" \in routes[i].allowed_methods
        /\ RaisedInDispatch(MethodNotAllowed("POST"))

(***************************************************************************)
(* C17: for any sequence or interleaving of dispatches against a route     *)
(* table built beforehand, each dispatch creates its own response object,  *)
(* which has status 200 and an empty body when the dispatch starts, and    *)
(* what one dispatch writes to its response is never visible in the        *)
(* response of another: every dispatch ends as it would when run alone.    *)
(***************************************************************************)
C17_FreshResponsePerDispatch ==
    \A t \in Threads :
        /\ threads[t].pc = "try" => heap[threads[t].response] = Response
        /\ \A u \in Threads \ {t} :
                (threads[t].pc # "idle" /\ threads[u].pc # "idle")
                    => threads[t].response # threads[u].response
        /\ threads[t].pc = "done"
                => threads[t].result =
                        handle_request(routes, exception_handler, threads[t].request).result

\* One thread's handler has written to its response and raised; the other
\* thread, started afterwards, holds a fresh response.
C17_Witness ==
    /\ threads["t1"].pc = "except"
    /\ heap[threads["t1"].response] = [status_code |-> 201, text |-> "partial"]
    /\ threads["t2"].pc = "try"
    /\ threads["t2"].response = 2
    /\ heap[threads["t2"].response] = Response

(***************************************************************************)
(* C18: each dispatch has exactly one handler-resolution result, a matched *)
(* route or the default not-found path, never both: with no match no       *)
(* handler is invoked and the default response is returned; with a match   *)
(* the default response is not produced.  The matched route's handler is   *)
(* invoked at most once per dispatch, exactly once when it raises: it is   *)
(* never retried.                                                          *)
(***************************************************************************)
NotFoundResponse ==
    [kind |-> "returned", response |-> [status_code |-> 404, text |-> "Not found"]]

C18_OneResolutionNoRetry ==
    Dispatched =>
        /\ Cardinality(EventIndexes("handle_request")) = 1
        /\ Cardinality(EventIndexes("handler")) <= 1
        /\ IF NoPatternMatches(op.request.path)
           THEN EventIndexes("handler") = {} /\ result = NotFoundResponse
           ELSE result # NotFoundResponse
        /\ \A i \in 1..Len(routes) :
                FirstMatch(i, op.request.path)
                    => Cardinality(EventIndexes("handler")) =
                            IF MethodPermitted(routes[i], op.request.method)
                            THEN 1 ELSE 0

\* The matched handler raised; it was called once and the error went to the
\* exception handler.
C18_Witness ==
    \E i \in 1..Len(routes) :
        /\ Dispatched
        /\ FirstMatch(i, op.request.path)
        /\ MethodPermitted(routes[i], op.request.method)
        /\ HandlerRaises(routes[i].handler, Member(routes[i], op.request.method))
        /\ Cardinality(EventIndexes("handler")) = 1
        /\ Cardinality(EventIndexes("exception_handler")) = 1

(***************************************************************************)
(* C19: if the registered exception handler itself raises while handling   *)
(* an error of a dispatch, the dispatch propagates that second error to    *)
(* the caller: no response is returned and the exception handler is not    *)
(* invoked a second time.                                                  *)
(***************************************************************************)
C19_DoubleFaultPropagates ==
    \A i \in 1..Len(routes) :
        ( /\ Dispatched
          /\ exception_handler # NoHandler
          /\ ExceptionHandlerBody(exception_handler, Response).raised
          /\ FirstMatch(i, op.request.path)
          /\ Fails(routes[i], op.request.method) )
            => /\ result =
                    [kind |-> "raised",
                     exc |-> ExceptionHandlerBody(exception_handler, Response).exc]
               /\ Cardinality(EventIndexes("exception_handler")) = 1

\* The handler raised HandlerError, the exception handler was called with it
\* and raised in turn; the caller got the second error.
C19_Witness ==
    /\ Dispatched
    /\ exception_handler = "on_exception_raises"
    /\ \E k \in EventIndexes("exception_handler") : events[k].exception = HandlerError
    /\ result = [kind |-> "raised", exc |-> DoubleFault]

(***************************************************************************)
(* C20, as stated: a request whose path begins with '/static' is           *)
(* intercepted before it reaches the router: handle_request and            *)
(* find_handler are not invoked for it and no route handler runs, even     *)
(* when a registered pattern matches the path and no static file exists    *)
(* for it.  The statement is read in its favour: only its last             *)
(* consequence, that no route handler runs, is required.                   *)
(***************************************************************************)
StaticRequest == op.name = "__call__" /\ startswith(op.request.path, StaticPrefix)

C20_Original == StaticRequest => EventIndexes("handler") = {}

(***************************************************************************)
(* C20: a request whose path begins with '/static' goes to WhiteNoise and  *)
(* runs no middleware hook.  When a static file exists for the path the    *)
(* file is served: handle_request is not invoked and no route handler      *)
(* runs.  When no file exists WhiteNoise passes the request on to          *)
(* wsgi_app: handle_request is invoked once, a registered pattern that     *)
(* matches the path is resolved and its handler runs, and without a match  *)
(* the 404 default response is returned.                                   *)
(***************************************************************************)
C20_StaticFallsThroughToRouter ==
    StaticRequest =>
        /\ PreHooks = <<>> /\ PostHooks = <<>>
        /\ IF op.request.path \in StaticFiles
           THEN /\ events = <<[kind |-> "static_file", request |-> op.request]>>
                /\ result.kind = "returned"
           ELSE /\ Cardinality(EventIndexes("handle_request")) = 1
                /\ EventIndexes("static_file") = {}
                /\ NoPatternMatches(op.request.path) => result = NotFoundResponse
                /\ \A i \in 1..Len(routes) :
                        ( /\ FirstMatch(i, op.request.path)
                          /\ MethodPermitted(routes[i], op.request.method) )
                            => HandlerInvokedWith(routes[i].handler,
                                    parse(routes[i].path, op.request.path).named)

\* GET /static/b, for which no file exists, with middleware registered and
\* '/{name}' the route: the route handler ran and no hook did.
C20_Witness ==
    /\ StaticRequest
    /\ op.request.path = StaticPrefix \o <<"/", "b">>
    /\ op.request.path \notin StaticFiles
    /\ middleware # <<>>
    /\ HandlerInvokedWith("home", {<<"name", Tail(op.request.path)>>})
    /\ result = [kind |-> "returned",
                 response |-> [status_code |-> 200, text |-> "Hello"]]

\* GET /static/a, a file: served although '/{name}' matches the path.
C20_FileServed ==
    /\ StaticRequest
    /\ op.request.path \in StaticFiles
    /\ \E i \in 1..Len(routes) : parse(routes[i].path, op.request.path).ok
    /\ events = <<[kind |-> "static_file", request |-> op.request]>>

(***************************************************************************)
(* C21, as stated: every invocation of a route handler caused by a request *)
(* entering the WSGI entrypoint is bracketed by the middleware pipeline:   *)
(* for every request path, paths that begin with '/static' included, all   *)
(* registered process_request hooks have run before the route handler is   *)
(* invoked and all process_response hooks run after it returns.            *)
(***************************************************************************)
\* The route handler called at events[k] returned rather than raised.
HandlerReturned(k) == ~HandlerRaises(events[k].handler, events[k].member)

\* The handler call at events[k] has every registered unit's process_request
\* hook before it and, when the handler returned, every registered unit's
\* process_response hook after it.
Bracketed(k) ==
    /\ \A c \in Elements(registered) :
            \E i \in 1..(k - 1) : events[i] = [kind |-> "process_request", cls |-> c]
    /\ HandlerReturned(k)
            => \A c \in Elements(registered) :
                    \E i \in (k + 1)..Len(events) :
                        events[i] = [kind |-> "process_response", cls |-> c]

C21_Original ==
    op.name = "__call__" => \A k \in EventIndexes("handler") : Bracketed(k)

(***************************************************************************)
(* C21: every invocation of a route handler caused by a request whose path *)
(* does not begin with '/static' is bracketed by the middleware pipeline:  *)
(* all registered process_request hooks have run before the handler is     *)
(* invoked and all process_response hooks run after it returns.  A request *)
(* whose path begins with '/static' runs no middleware hook, also when no  *)
(* static file exists for it and a route handler is invoked.               *)
(***************************************************************************)
C21_BracketedOutsideStatic ==
    op.name = "__call__" =>
        IF startswith(op.request.path, StaticPrefix)
        THEN EventIndexes("process_request") = {}
                /\ EventIndexes("process_response") = {}
        ELSE \A k \in EventIndexes("handler") : Bracketed(k)

\* Two units are registered: a handler outside '/static' returned between
\* their hooks.
C21_Witness ==
    /\ op.name = "__call__"
    /\ ~startswith(op.request.path, StaticPrefix)
    /\ Len(registered) = 2
    /\ \E k \in EventIndexes("handler") :
            /\ HandlerReturned(k)
            /\ Bracketed(k)
            /\ k = 4
            /\ Len(events) = 6

\* Two units are registered: '/static/b', which is no file, reached a route
\* handler and no hook ran.
C21_StaticHandlerUnbracketed ==
    /\ StaticRequest
    /\ Len(registered) = 2
    /\ EventIndexes("handler") # {}
    /\ EventIndexes("process_request") = {}
    /\ EventIndexes("process_response") = {}

====
